---- MODULE Spec2Model ----
(***************************************************************************)
(* Ride-sharing record keeper: the driver and passenger collections        *)
(* (drivers.h, passengers.h/.cpp), the three console programs that drive   *)
(* them (main.cpp, drivermain.cpp, passengersmain.cpp) and the ride        *)
(* status lifecycle of section 4.3 of the specification.                   *)
(*                                                                         *)
(* Console input is modelled at the level of extracted tokens: every read  *)
(* (cin >> x, getline) yields a value drawn from a small set of values of  *)
(* the type read.  Ratings are floats with one decimal and are kept in     *)
(* tenths (0.5 is 5, 5.5 is 55).  Every read is taken to succeed: the      *)
(* stream never enters the fail state.                                     *)
(*                                                                         *)
(* ExecuteMenu of main.cpp is one action that advances from one console    *)
(* read to the next; the drivermain.cpp and passengersmain.cpp handlers    *)
(* have no loop and are one step each.                                     *)
(***************************************************************************)
EXTENDS Integers, Sequences, FiniteSets, TLC

VARIABLES
    variant,          \* which program runs: a console program or a direct caller of the collections
    pc,               \* position of the single thread of control
    c,                \* main(): char c, the last option token read
    sub,              \* main.cpp ExecuteMenu: char c, the list chosen in the add flow
    tempStr,          \* main.cpp ExecuteMenu: string tempStr
    d,                \* main.cpp ExecuteMenu: driver d under construction
    p,                \* main.cpp ExecuteMenu: passenger p under construction
    TotalDrivers,     \* drivers::TotalDrivers
    TotalPassengers,  \* passengers::TotalPassengers
    histD,            \* history: the arguments of the drivers::Add calls made so far
    histP,            \* history: the arguments of the passengers::Add calls made so far
    rides,            \* the ride collection of section 4.3
    flowAdds,         \* history: Add calls made since the last option was read
    out               \* what the last collection operation wrote to the console

vars == <<variant, pc, c, sub, tempStr, d, p, TotalDrivers, TotalPassengers, histD, histP,
          rides, flowAdds, out>>

(***************************************************************************)
(* Bounds and input domains                                                *)
(***************************************************************************)
MaxAdds == 2          \* Add calls per run, over all collections

Variants == {"main", "drivermain", "passengersmain", "library"}

DriverIds == {1, 2}
PassengerIds == {7, 8}
Ratings == {5, 30, 55}                      \* 0.5, 3.0, 5.5
Names == {"Ana", "Bo"}
Words == {"yes", "no", "sedan", "cash", "maybe"}
OptionTokens == {"a", "A", "b", "d", "f", "p", "q"}
FindArgs == {7, 9}

DriverRecords ==
    [d_id : DriverIds, d_name : {"Ana"}, v_capacity : {4}, handicap : {FALSE},
     v_type : {"sedan"}, d_rating : Ratings, v_available : {TRUE},
     pets : {FALSE}, notes : {"none"}]

PassengerRecords ==
    [name : {"Bo"}, id : PassengerIds, p_method : {"cash"}, handicap : BOOLEAN,
     rating : Ratings, pets : BOOLEAN]

\* what a read past the end of the vector's storage may yield
GarbageRecords ==
    {r \in PassengerRecords : r.handicap = FALSE /\ r.pets = FALSE /\ r.rating = 30}

(***************************************************************************)
(* Record types                                                            *)
(***************************************************************************)
\* driver::driver()
DefaultDriver ==
    [d_id |-> 0, d_name |-> "None", v_capacity |-> 0, handicap |-> FALSE,
     v_type |-> "Blank", d_rating |-> 0, v_available |-> FALSE,
     pets |-> FALSE, notes |-> "Blank"]

\* passenger::passenger() initialises nothing: the strings are empty, the
\* scalar members are indeterminate until a setter writes them.
DefaultPassengers ==
    [name : {""}, id : PassengerIds, p_method : {""}, handicap : BOOLEAN,
     rating : {30}, pets : {FALSE}]

\* value of the locals d and p while ExecuteMenu is not running
NoPassenger ==
    [name |-> "", id |-> 0, p_method |-> "", handicap |-> FALSE, rating |-> 0, pets |-> FALSE]

(***************************************************************************)
(* passengers (passengers.cpp)                                             *)
(***************************************************************************)
\* an Add that rejects a record whose id is already stored
PassengersAddUniqueId(list, rec) ==
    IF \E i \in 1..Len(list) : list[i].id = rec.id THEN list ELSE Append(list, rec)

\* an Add that inserts at the front
PassengersAddFront(list, rec) == <<rec>> \o list

\* passengers::Add
PassengersAdd(list, rec) == Append(list, rec)

\* passengers::PrintSize
PassengersPrintSize(list) ==
    IF Len(list) # 0
    THEN [op |-> "size", coll |-> "passengers", msg |-> "The size is: ", n |-> Len(list)]
    ELSE [op |-> "size", coll |-> "passengers", msg |-> "Vector is empty."]

\* the lines passengers::PrintAll writes for one element
PrintAllEntry(rec) ==
    [name |-> rec.name,
     id |-> rec.id,
     payment |-> rec.p_method,
     handicap |-> IF rec.handicap = FALSE THEN "Not Handicap Capable" ELSE "Handicap Capable",
     rating |-> rec.rating,
     pets |-> IF rec.pets = FALSE THEN "Not Pet Capable" ELSE "Pet Capable"]

\* a PrintAll whose loop starts at the second element
PassengersPrintAllFromSecond(list) ==
    [op |-> "all", entries |-> [i \in 1..(Len(list) - 1) |-> PrintAllEntry(list[i + 1])]]

\* passengers::PrintAll: the iterator runs from begin() to end()
PassengersPrintAll(list) ==
    [op |-> "all", entries |-> [i \in 1..Len(list) |-> PrintAllEntry(list[i])]]

\* The comparison std::find applies in passengers::FindEntry: *it == n, a
\* whole passenger against an int.  No id field is read; a passenger record
\* is never structurally equal to an integer.
ElementEqualsInt(rec, n) == FALSE

\* std::find(begin, end, n): index of the first element equal to n, or the
\* end position Len(list) + 1
StdFind(list, n) ==
    IF \E i \in 1..Len(list) : ElementEqualsInt(list[i], n)
    THEN CHOOSE i \in 1..Len(list) :
             /\ ElementEqualsInt(list[i], n)
             /\ \A j \in 1..(i-1) : ~ElementEqualsInt(list[j], n)
    ELSE Len(list) + 1

\* passengers::FindEntry: the outcomes of cout << *it.  Dereferencing end()
\* is undefined: the read past the end yields arbitrary bytes or faults.
FindEntryOutcomes(list, n) ==
    LET it == StdFind(list, n) IN
    IF it <= Len(list)
    THEN {[op |-> "find", n |-> n, it |-> it, deref |-> "element", rec |-> list[it]]}
    ELSE {[op |-> "find", n |-> n, it |-> it, deref |-> "past_end", rec |-> g] : g \in GarbageRecords}
         \cup {[op |-> "find", n |-> n, it |-> it, deref |-> "fault"]}

(***************************************************************************)
(* drivers (drivers.h; the bodies follow section 4.1)                      *)
(***************************************************************************)
\* drivers::Add
DriversAdd(list, rec) == Append(list, rec)

\* drivers::PrintSize
DriversPrintSize(list) ==
    [op |-> "size", coll |-> "drivers", msg |-> "The size is: ", n |-> Len(list)]

(***************************************************************************)
(* rides (Ride.h declares the record; the collection and its status        *)
(* lifecycle follow section 4.3)                                           *)
(***************************************************************************)
Statuses == {"requested", "assigned", "in_progress", "completed", "cancelled"}

NonTerminal == {"requested", "assigned", "in_progress"}

\* the edges of the status graph
Edge(from, to) ==
    \/ from = "requested" /\ to = "assigned"
    \/ from = "assigned" /\ to = "in_progress"
    \/ from = "in_progress" /\ to = "completed"
    \/ from \in NonTerminal /\ to = "cancelled"

RECURSIVE ReachableWithin(_, _, _)
ReachableWithin(from, to, k) ==
    \/ from = to
    \/ k > 0 /\ \E mid \in Statuses : Edge(from, mid) /\ ReachableWithin(mid, to, k - 1)

\* a graph in which cancelled is reachable from every state
ReachableCancelAnywhere(from, to) ==
    ReachableWithin(from, to, Cardinality(Statuses)) \/ to = "cancelled"

\* "reachable from the current one per the graph"
Reachable(from, to) == ReachableWithin(from, to, Cardinality(Statuses))

RideRequests ==
    [r_id : {1, 2}, pickupLocation : {"here"}, dropoff : {"there"},
     sizeofparty : {1}, hasPets : {FALSE}]

\* Add(record): append a new ride in state requested
RidesAdd(list, req) ==
    Append(list, [r_id |-> req.r_id, pickupLocation |-> req.pickupLocation,
                  dropoff |-> req.dropoff, sizeofparty |-> req.sizeofparty,
                  hasPets |-> req.hasPets, status |-> "requested"])

\* index of the first ride with the id, 0 if there is none
RideIndex(list, id) ==
    IF \E i \in 1..Len(list) : list[i].r_id = id
    THEN CHOOSE i \in 1..Len(list) :
             list[i].r_id = id /\ \A j \in 1..(i-1) : list[j].r_id # id
    ELSE 0

\* SetStatus(id, newState): the collection afterwards and the result
RidesSetStatus(list, id, to) ==
    LET i == RideIndex(list, id) IN
    IF i = 0
    THEN [list |-> list,
          out |-> [op |-> "setstatus", id |-> id, from |-> "none", to |-> to,
                   result |-> "NotFound"]]
    ELSE IF Reachable(list[i].status, to)
    THEN [list |-> [list EXCEPT ![i].status = to],
          out |-> [op |-> "setstatus", id |-> id, from |-> list[i].status, to |-> to,
                   result |-> "ok"]]
    ELSE [list |-> list,
          out |-> [op |-> "setstatus", id |-> id, from |-> list[i].status, to |-> to,
                   result |-> "InvalidTransition"]]

NoOutput == [op |-> "none"]

AddBudget == Len(histD) + Len(histP) + Len(rides) < MaxAdds

Locals == <<sub, tempStr, d, p>>
Collections == <<TotalDrivers, TotalPassengers, histD, histP, rides>>

(***************************************************************************)
(* Initial state: the collections are constructed empty; main() sets c to  *)
(* ' ' and enters the menu loop.                                           *)
(***************************************************************************)
Init ==
    /\ variant \in Variants
    /\ pc = IF variant = "library" THEN "running" ELSE "prompt"
    /\ c = " "
    /\ sub = " "
    /\ tempStr = " "
    /\ d = DefaultDriver
    /\ p = NoPassenger
    /\ TotalDrivers = <<>>
    /\ TotalPassengers = <<>>
    /\ histD = <<>>
    /\ histP = <<>>
    /\ rides = <<>>
    /\ flowAdds = 0
    /\ out = NoOutput

(***************************************************************************)
(* Direct calls of the collections' public operations                      *)
(***************************************************************************)
CallPassengersAdd ==
    /\ variant = "library" /\ pc = "running" /\ AddBudget
    /\ \E rec \in PassengerRecords :
         /\ TotalPassengers' = PassengersAdd(TotalPassengers, rec)
         /\ histP' = Append(histP, rec)
    /\ out' = NoOutput
    /\ UNCHANGED <<variant, pc, c, Locals, TotalDrivers, histD, rides, flowAdds>>

CallPassengersPrintSize ==
    /\ variant = "library" /\ pc = "running"
    /\ out' = PassengersPrintSize(TotalPassengers)
    /\ UNCHANGED <<variant, pc, c, Locals, Collections, flowAdds>>

CallPassengersPrintAll ==
    /\ variant = "library" /\ pc = "running"
    /\ out' = PassengersPrintAll(TotalPassengers)
    /\ UNCHANGED <<variant, pc, c, Locals, Collections, flowAdds>>

CallPassengersFindEntry ==
    /\ variant = "library" /\ pc = "running"
    /\ \E n \in FindArgs : \E o \in FindEntryOutcomes(TotalPassengers, n) :
         /\ out' = o
         /\ pc' = IF o.deref = "fault" THEN "crashed" ELSE "running"
    /\ UNCHANGED <<variant, c, Locals, Collections, flowAdds>>

CallDriversAdd ==
    /\ variant = "library" /\ pc = "running" /\ AddBudget
    /\ \E rec \in DriverRecords :
         /\ TotalDrivers' = DriversAdd(TotalDrivers, rec)
         /\ histD' = Append(histD, rec)
    /\ out' = NoOutput
    /\ UNCHANGED <<variant, pc, c, Locals, TotalPassengers, histP, rides, flowAdds>>

CallDriversPrintSize ==
    /\ variant = "library" /\ pc = "running"
    /\ out' = DriversPrintSize(TotalDrivers)
    /\ UNCHANGED <<variant, pc, c, Locals, Collections, flowAdds>>

CallRidesAdd ==
    /\ variant = "library" /\ pc = "running" /\ AddBudget
    /\ \E req \in RideRequests : rides' = RidesAdd(rides, req)
    /\ out' = [op |-> "rideadd"]
    /\ UNCHANGED <<variant, pc, c, Locals, TotalDrivers, TotalPassengers, histD, histP, flowAdds>>

CallRidesSetStatus ==
    /\ variant = "library" /\ pc = "running"
    /\ \E id \in {1, 2}, to \in Statuses :
         LET r == RidesSetStatus(rides, id, to) IN
         /\ rides' = r.list
         /\ out' = r.out
    /\ UNCHANGED <<variant, pc, c, Locals, TotalDrivers, TotalPassengers, histD, histP, flowAdds>>

(***************************************************************************)
(* drivermain.cpp                                                          *)
(***************************************************************************)
\* a menu loop that tests for the upper-case letter
LoopContinuesUpperQ(ch) == ch # "Q"

\* the condition of the menu loop, while(c != 'q'), the same in the three programs
LoopContinues(ch) == ch # "q"

\* where main() goes when ExecuteMenu returns or is not called
AfterOption(ch) == IF LoopContinues(ch) THEN "prompt" ELSE "done"

\* main() of drivermain.cpp: one pass of the menu loop up to the dispatch
MainDriver ==
    /\ variant = "drivermain" /\ pc = "prompt"
    /\ \E t \in OptionTokens :
         /\ t = "a" => AddBudget
         /\ c' = t
         /\ pc' = IF t = "a" \/ t = "d" \/ t = "f" THEN "exec" ELSE AfterOption(t)
    /\ flowAdds' = 0
    /\ UNCHANGED <<variant, Locals, Collections, out>>

\* ExecuteMenu of drivermain.cpp
ExecuteMenuDriver ==
    /\ variant = "drivermain" /\ pc = "exec"
    /\ \/ /\ c = "a"
          /\ \E rec \in DriverRecords :
               /\ TotalDrivers' = DriversAdd(TotalDrivers, rec)
               /\ histD' = Append(histD, rec)
          /\ flowAdds' = flowAdds + 1
          /\ out' = NoOutput
       \/ /\ c = "f"
          /\ out' = DriversPrintSize(TotalDrivers)
          /\ UNCHANGED <<TotalDrivers, histD, flowAdds>>
       \/ /\ c \notin {"a", "f"}
          /\ UNCHANGED <<TotalDrivers, histD, flowAdds, out>>
    /\ pc' = AfterOption(c)
    /\ UNCHANGED <<variant, c, Locals, TotalPassengers, histP, rides>>

(***************************************************************************)
(* passengersmain.cpp                                                      *)
(***************************************************************************)
\* main() of passengersmain.cpp
MainPassengers ==
    /\ variant = "passengersmain" /\ pc = "prompt"
    /\ \E t \in OptionTokens :
         /\ t = "a" => AddBudget
         /\ c' = t
         /\ pc' = IF t = "a" \/ t = "d" \/ t = "f" \/ t = "p" THEN "exec" ELSE AfterOption(t)
    /\ flowAdds' = 0
    /\ UNCHANGED <<variant, Locals, Collections, out>>

\* ExecuteMenu of passengersmain.cpp
ExecuteMenuPassengers ==
    /\ variant = "passengersmain" /\ pc = "exec"
    /\ \/ /\ c = "a"
          /\ \E rec \in PassengerRecords :
               /\ TotalPassengers' = PassengersAdd(TotalPassengers, rec)
               /\ histP' = Append(histP, rec)
          /\ flowAdds' = flowAdds + 1
          /\ out' = NoOutput
       \/ /\ c = "f"
          /\ out' = PassengersPrintSize(TotalPassengers)
          /\ UNCHANGED <<TotalPassengers, histP, flowAdds>>
       \/ /\ c = "p"
          /\ out' = PassengersPrintAll(TotalPassengers)
          /\ UNCHANGED <<TotalPassengers, histP, flowAdds>>
       \/ /\ c \notin {"a", "f", "p"}
          /\ UNCHANGED <<TotalPassengers, histP, flowAdds, out>>
    /\ pc' = AfterOption(c)
    /\ UNCHANGED <<variant, c, Locals, TotalDrivers, histD, rides>>

(***************************************************************************)
(* main.cpp                                                                *)
(***************************************************************************)
\* toupper on the option characters
ToUpper(ch) ==
    CASE ch = "a" -> "A"
      [] ch = "b" -> "B"
      [] ch = "d" -> "D"
      [] ch = "f" -> "F"
      [] ch = "p" -> "P"
      [] ch = "q" -> "Q"
      [] OTHER -> ch

\* the yes/no condition with && in place of ||
YesNoCondAnd(str) == str # "yes" /\ str # "no"

\* while(tempStr != "yes" || tempStr != "no")
YesNoCond(str) == str # "yes" \/ str # "no"

\* while(tempStr != "compact" || tempStr != "2dr" || ... || tempStr != "other")
VehicleTypeCond(str) ==
    \/ str # "compact" \/ str # "2dr" \/ str # "sedan" \/ str # "4dr"
    \/ str # "SUV" \/ str # "van" \/ str # "other"

\* while(tempStr != "cash" || tempStr != "card" || tempStr != "debit")
PaymentCond(str) == str # "cash" \/ str # "card" \/ str # "debit"

\* while(tempFloat < 1 || tempFloat > 5), in tenths
RatingCond(f) == f < 10 \/ f > 50

\* the body of a yes/no loop: the setter runs only for "yes" and "no"
YesNoValue(str, old) == IF str = "yes" THEN TRUE ELSE IF str = "no" THEN FALSE ELSE old

\* the values one step of the add flow may read from the console
Inputs ==
    [ch : OptionTokens, did : DriverIds, pid : PassengerIds, name : Names,
     cap : {4}, w : Words, r : Ratings]

\* the state ExecuteMenu of main.cpp works on
Frame ==
    [pc |-> pc, sub |-> sub, tempStr |-> tempStr, d |-> d, p |-> p,
     TotalDrivers |-> TotalDrivers, TotalPassengers |-> TotalPassengers,
     histD |-> histD, histP |-> histP, flowAdds |-> flowAdds]

\* return from ExecuteMenu to the menu loop: the locals go out of scope
Return(s) ==
    [s EXCEPT !.pc = AfterOption(c), !.sub = " ", !.tempStr = " ",
              !.d = DefaultDriver, !.p = NoPassenger]

\* switch(toupper(option)) and, in case 'A', switch(toupper(c)) with the
\* reads that precede the first loop of the chosen flow
EnterFlow(s, in) ==
    IF ToUpper(c) # "A" THEN Return(s)
    ELSE IF ToUpper(in.ch) = "A"
         THEN [s EXCEPT !.pc = "d_handicap", !.sub = in.ch, !.tempStr = in.name,
                        !.d = [@ EXCEPT !.d_id = in.did, !.d_name = in.name,
                                        !.v_capacity = in.cap]]
    ELSE IF ToUpper(in.ch) = "B"
         THEN [s EXCEPT !.pc = "p_payment", !.sub = in.ch, !.tempStr = in.name,
                        !.p = [@ EXCEPT !.name = in.name, !.id = in.pid]]
    ELSE Return([s EXCEPT !.sub = in.ch])

\* do { Handicap Capable ... } while(...)
DriverHandicapLoop(s, in) ==
    LET s1 == [s EXCEPT !.tempStr = in.w, !.d.handicap = YesNoValue(in.w, @)]
    IN IF YesNoCond(in.w) THEN s1 ELSE [s1 EXCEPT !.pc = "d_type"]

\* do { vehicle type } while(...)
DriverTypeLoop(s, in) ==
    LET s1 == [s EXCEPT !.tempStr = in.w, !.d.v_type = in.w]
    IN IF VehicleTypeCond(in.w) THEN s1 ELSE [s1 EXCEPT !.pc = "d_rating"]

\* do { Driver Rating } while(...)
DriverRatingLoop(s, in) ==
    LET s1 == [s EXCEPT !.d.d_rating = in.r]
    IN IF RatingCond(in.r) THEN s1 ELSE [s1 EXCEPT !.pc = "d_available"]

\* do { Available ... } while(...)
DriverAvailableLoop(s, in) ==
    LET s1 == [s EXCEPT !.tempStr = in.w, !.d.v_available = YesNoValue(in.w, @)]
    IN IF YesNoCond(in.w) THEN s1 ELSE [s1 EXCEPT !.pc = "d_pets"]

\* do { Pets Allowed ... } while(...)
DriverPetsLoop(s, in) ==
    LET s1 == [s EXCEPT !.tempStr = in.w, !.d.pets = YesNoValue(in.w, @)]
    IN IF YesNoCond(in.w) THEN s1 ELSE [s1 EXCEPT !.pc = "d_notes"]

\* a driver flow that adds to the passenger list as well
DriverNotesAndAddBoth(s, in) ==
    LET rec == [s.d EXCEPT !.notes = in.name]
    IN Return([s EXCEPT !.TotalDrivers = DriversAdd(@, rec), !.histD = Append(@, rec),
                        !.TotalPassengers = PassengersAdd(@, NoPassenger),
                        !.flowAdds = @ + 1])

\* Important Notes, ListOfDrivers.Add(d), break
DriverNotesAndAdd(s, in) ==
    LET rec == [s.d EXCEPT !.notes = in.name]
    IN Return([s EXCEPT !.TotalDrivers = DriversAdd(@, rec), !.histD = Append(@, rec),
                        !.flowAdds = @ + 1])

\* do { Enter Payment Method } while(...)
PassengerPaymentLoop(s, in) ==
    LET s1 == [s EXCEPT !.tempStr = in.w, !.p.p_method = in.w]
    IN IF PaymentCond(in.w) THEN s1 ELSE [s1 EXCEPT !.pc = "p_handicap"]

\* do { Handicapped ... } while(...)
PassengerHandicapLoop(s, in) ==
    LET s1 == [s EXCEPT !.tempStr = in.w, !.p.handicap = YesNoValue(in.w, @)]
    IN IF YesNoCond(in.w) THEN s1 ELSE [s1 EXCEPT !.pc = "p_rating"]

\* do { Passenger Rating } while(...)
PassengerRatingLoop(s, in) ==
    LET s1 == [s EXCEPT !.p.rating = in.r]
    IN IF RatingCond(in.r) THEN s1 ELSE [s1 EXCEPT !.pc = "p_pets"]

\* do { Pets with you ... } while(...), ListOfPassengers.Add(p), break
PassengerPetsLoopAndAdd(s, in) ==
    LET s1 == [s EXCEPT !.tempStr = in.w, !.p.pets = YesNoValue(in.w, @)]
    IN IF YesNoCond(in.w) THEN s1
       ELSE Return([s1 EXCEPT !.TotalPassengers = PassengersAdd(@, s1.p),
                              !.histP = Append(@, s1.p), !.flowAdds = @ + 1])

\* one step of ExecuteMenu of main.cpp: from one console read to the next
ExecuteMenuStep(s, in) ==
    CASE s.pc = "exec"        -> EnterFlow(s, in)
      [] s.pc = "d_handicap"  -> DriverHandicapLoop(s, in)
      [] s.pc = "d_type"      -> DriverTypeLoop(s, in)
      [] s.pc = "d_rating"    -> DriverRatingLoop(s, in)
      [] s.pc = "d_available" -> DriverAvailableLoop(s, in)
      [] s.pc = "d_pets"      -> DriverPetsLoop(s, in)
      [] s.pc = "d_notes"     -> DriverNotesAndAdd(s, in)
      [] s.pc = "p_payment"   -> PassengerPaymentLoop(s, in)
      [] s.pc = "p_handicap"  -> PassengerHandicapLoop(s, in)
      [] s.pc = "p_rating"    -> PassengerRatingLoop(s, in)
      [] s.pc = "p_pets"      -> PassengerPetsLoopAndAdd(s, in)

FlowPcs ==
    {"exec", "d_handicap", "d_type", "d_rating", "d_available", "d_pets", "d_notes",
     "p_payment", "p_handicap", "p_rating", "p_pets"}

\* main() of main.cpp: one pass of the menu loop up to the dispatch; the
\* call constructs the locals driver d and passenger p
MainCombined ==
    /\ variant = "main" /\ pc = "prompt"
    /\ \E t \in OptionTokens :
         /\ t = "A" => AddBudget
         /\ c' = t
         /\ IF t = "A" \/ t = "d" \/ t = "f" \/ t = "p"
            THEN /\ pc' = "exec"
                 /\ d' = DefaultDriver
                 /\ p' \in DefaultPassengers
            ELSE /\ pc' = AfterOption(t)
                 /\ UNCHANGED <<d, p>>
    /\ flowAdds' = 0
    /\ UNCHANGED <<variant, sub, tempStr, Collections, out>>

\* ExecuteMenu of main.cpp
ExecuteMenuCombined ==
    /\ variant = "main" /\ pc \in FlowPcs
    /\ \E in \in Inputs :
         LET s == ExecuteMenuStep(Frame, in) IN
         /\ pc' = s.pc
         /\ sub' = s.sub
         /\ tempStr' = s.tempStr
         /\ d' = s.d
         /\ p' = s.p
         /\ TotalDrivers' = s.TotalDrivers
         /\ TotalPassengers' = s.TotalPassengers
         /\ histD' = s.histD
         /\ histP' = s.histP
         /\ flowAdds' = s.flowAdds
    /\ UNCHANGED <<variant, c, rides, out>>

Next ==
    \/ MainCombined
    \/ ExecuteMenuCombined
    \/ MainDriver
    \/ ExecuteMenuDriver
    \/ MainPassengers
    \/ ExecuteMenuPassengers
    \/ CallPassengersAdd
    \/ CallPassengersPrintSize
    \/ CallPassengersPrintAll
    \/ CallPassengersFindEntry
    \/ CallDriversAdd
    \/ CallDriversPrintSize
    \/ CallRidesAdd
    \/ CallRidesSetStatus

Spec == Init /\ [][Next]_vars

(***************************************************************************)
(* Properties                                                              *)
(***************************************************************************)

\* C1: the size PrintSize reports equals the number of Add calls made on
\* that collection so far, and the collection holds that many records; for
\* passengers a count of zero is reported as "Vector is empty.".  Records
\* whose id is already stored are counted like any other.
C1_CountEqualsAdds ==
    /\ Len(TotalPassengers) = Len(histP)
    /\ Len(TotalDrivers) = Len(histD)
    /\ (out.op = "size" /\ out.coll = "passengers") =>
          IF Len(histP) = 0
          THEN out.msg = "Vector is empty."
          ELSE out.msg = "The size is: " /\ out.n = Len(histP)
    /\ (out.op = "size" /\ out.coll = "drivers") => out.n = Len(histD)

\* a count was printed after two passengers with the same id were added
C1_Witness ==
    /\ out.op = "size" /\ out.coll = "passengers"
    /\ Len(histP) = 2
    /\ histP[1].id = histP[2].id
    /\ out.n = 2

\* C2: PrintAll after N Add calls emits exactly N entries, the i-th entry
\* showing the fields of the i-th record added; on an empty collection
\* it emits nothing.
C2_PrintAllInInsertionOrder ==
    out.op = "all" =>
        /\ Len(out.entries) = Len(histP)
        /\ \A i \in 1..Len(histP) :
              /\ out.entries[i].name = histP[i].name
              /\ out.entries[i].id = histP[i].id
              /\ out.entries[i].payment = histP[i].p_method
              /\ out.entries[i].rating = histP[i].rating
              /\ (out.entries[i].handicap = "Handicap Capable") = histP[i].handicap
              /\ (out.entries[i].pets = "Pet Capable") = histP[i].pets

\* two different records were added and then listed
C2_Witness ==
    /\ out.op = "all"
    /\ Len(histP) = 2
    /\ histP[1] # histP[2]
    /\ Len(out.entries) = 2

\* the smallest index of a stored passenger with the id, 0 if there is none
FirstWithId(n) ==
    IF \E i \in 1..Len(TotalPassengers) : TotalPassengers[i].id = n
    THEN CHOOSE i \in 1..Len(TotalPassengers) :
             /\ TotalPassengers[i].id = n
             /\ \A j \in 1..(i-1) : TotalPassengers[j].id # n
    ELSE 0

\* C3: FindEntry(x) returns the stored record with the smallest insertion
\* index whose id equals x.
C3_FindReturnsFirstWithId ==
    (out.op = "find" /\ FirstWithId(out.n) # 0) =>
        /\ out.deref = "element"
        /\ out.it = FirstWithId(out.n)
        /\ out.rec = TotalPassengers[FirstWithId(out.n)]

\* C4: FindEntry(x) with no stored record of id x ends in an explicit
\* not-found result: nothing past the end of the list is read or printed,
\* the process keeps running and the collection is unchanged.
C4_NotFoundIsExplicit ==
    (out.op = "find" /\ FirstWithId(out.n) = 0) =>
        /\ out.deref = "not_found"
        /\ pc # "crashed"
        /\ TotalPassengers = histP

\* C5: in the three console programs every stored record has a rating in
\* [1.0, 5.0].
C5_StoredRatingsInRange ==
    variant \in {"main", "drivermain", "passengersmain"} =>
        /\ \A i \in 1..Len(TotalDrivers) :
              TotalDrivers[i].d_rating >= 10 /\ TotalDrivers[i].d_rating <= 50
        /\ \A i \in 1..Len(TotalPassengers) :
              TotalPassengers[i].rating >= 10 /\ TotalPassengers[i].rating <= 50

IsPrefix(s1, s2) ==
    Len(s1) <= Len(s2) /\ \A i \in 1..Len(s1) : s1[i] = s2[i]

\* the step runs the count, list-all, find or placeholder-delete operation
ReadOnlyStep ==
    \/ variant # "library" /\ pc = "exec" /\ c \in {"d", "f", "p"}
    \/ variant = "library" /\ out' # out /\ out'.op \in {"size", "all", "find"}

\* C6: across every step the old item sequence of each collection is a
\* prefix of the new one; a sequence changes only by an Add, which appends
\* exactly the added record at the end; the count, list-all, find and 'd'
\* options leave both sequences unchanged.
C6_AppendOnly ==
    [][/\ IsPrefix(TotalPassengers, TotalPassengers')
       /\ IsPrefix(TotalDrivers, TotalDrivers')
       /\ TotalPassengers' # TotalPassengers =>
             /\ Len(histP') = Len(histP) + 1
             /\ TotalPassengers' = Append(TotalPassengers, histP'[Len(histP')])
       /\ TotalDrivers' # TotalDrivers =>
             /\ Len(histD') = Len(histD) + 1
             /\ TotalDrivers' = Append(TotalDrivers, histD'[Len(histD')])
       /\ ReadOnlyStep =>
             TotalPassengers' = TotalPassengers /\ TotalDrivers' = TotalDrivers]_vars

\* the 'd' option ran on a collection that holds two records
C6_Witness ==
    /\ variant = "passengersmain"
    /\ pc = "prompt" /\ c = "d"
    /\ Len(TotalPassengers) = 2
    /\ TotalPassengers = histP

\* C7: in the console programs a 'q' read at the option prompt ends the
\* menu loop with no further collection operation; nothing else ends it,
\* and after the end nothing happens.
C7_QuitEndsLoop ==
    [][variant # "library" =>
         /\ (pc = "prompt" /\ c' = "q") =>
               pc' = "done" /\ UNCHANGED <<Collections, out>>
         /\ (pc = "prompt" /\ c' # "q") => pc' \in {"prompt", "exec"}
         /\ pc' = "done" => (pc = "prompt" /\ c' = "q")
         /\ pc # "done"]_vars

\* the program ended on 'q' after a record had been added
C7_Witness ==
    /\ variant = "passengersmain"
    /\ pc = "done" /\ c = "q"
    /\ Len(TotalPassengers) = 1

\* the ride a SetStatus result is about
RideOf(id) == rides[RideIndex(rides, id)]

\* C8: a ride is added in state requested; SetStatus succeeds only along
\* the status graph; requested to cancelled succeeds; from completed every
\* other target fails with InvalidTransition and the status stays completed.
C8_RideStatusMachine ==
    /\ out.op = "rideadd" => rides[Len(rides)].status = "requested"
    /\ out.op = "setstatus" =>
          /\ (out.from = "requested" /\ out.to = "cancelled") =>
                out.result = "ok" /\ RideOf(out.id).status = "cancelled"
          /\ (out.from = "completed" /\ out.to # "completed") =>
                out.result = "InvalidTransition" /\ RideOf(out.id).status = "completed"
          /\ out.result = "ok" =>
                /\ RideOf(out.id).status = out.to
                /\ out.from = out.to
                   \/ (out.from \in NonTerminal /\ out.to = "cancelled")
                   \/ (<<out.from, out.to>> \in
                         {<<"requested", "assigned">>, <<"requested", "in_progress">>,
                          <<"requested", "completed">>, <<"assigned", "in_progress">>,
                          <<"assigned", "completed">>, <<"in_progress", "completed">>})
          /\ out.result = "InvalidTransition" => RideOf(out.id).status = out.from

\* a completed ride refused to be cancelled
C8_Witness ==
    /\ out.op = "setstatus"
    /\ out.from = "completed" /\ out.to = "cancelled"
    /\ out.result = "InvalidTransition"
    /\ RideOf(out.id).status = "completed"

\* the yes/no, vehicle type and payment loops of the add flows of main.cpp
ValidationLoopPcs ==
    {"d_handicap", "d_type", "d_available", "d_pets", "p_payment", "p_handicap", "p_pets"}

FairSpec == Spec /\ WF_vars(Next)

\* an add option has been dispatched to ExecuteMenu
AddDispatched ==
    \/ variant \in {"drivermain", "passengersmain"} /\ pc = "exec" /\ c = "a"
    \/ variant = "main" /\ pc \in {"d_handicap", "p_payment"}

\* C10: once an add option is dispatched, the flow eventually has made
\* exactly one Add and control is back at the option prompt.
C10_AddFlowCompletes ==
    AddDispatched ~> (pc = "prompt" /\ flowAdds = 1)

\* the positions of the driver flow and of the passenger flow of main.cpp
DriverFlowPcs == {"d_handicap", "d_type", "d_rating", "d_available", "d_pets", "d_notes"}
PassengerFlowPcs == {"p_payment", "p_handicap", "p_rating", "p_pets"}

\* one value per prompt kind, enough to take every branch of a flow step
FlowInputs ==
    [ch : {"A"}, did : {1}, pid : {7}, name : {"Ana"}, cap : {4},
     w : {"yes", "maybe"}, r : {30}]

\* the step is an operation on the driver collection
DriverOperationStep ==
    \/ histD' # histD
    \/ out' # out /\ out'.op = "size" /\ out'.coll = "drivers"

\* the step is an operation on the passenger collection
PassengerOperationStep ==
    \/ histP' # histP
    \/ out' # out /\ out'.op \in {"all", "find"}
    \/ out' # out /\ out'.op = "size" /\ out'.coll = "passengers"

\* C11: the two collections are independent.  Every step that operates on
\* the driver collection (an Add included) leaves the passenger item
\* sequence unchanged and every step that operates on the passenger
\* collection leaves the driver item sequence unchanged; and whatever the
\* two collections hold, a step of the driver add flow of main.cpp's
\* ExecuteMenu (its ListOfDrivers.Add included) returns the passenger
\* sequence as it was, and a step of the passenger add flow the driver
\* sequence.
C11_CollectionsIndependent ==
    /\ [][/\ DriverOperationStep => TotalPassengers' = TotalPassengers
          /\ PassengerOperationStep => TotalDrivers' = TotalDrivers]_vars
    /\ [](\A in \in FlowInputs :
            /\ \A q \in DriverFlowPcs :
                  ExecuteMenuStep([Frame EXCEPT !.pc = q], in).TotalPassengers = TotalPassengers
            /\ \A q \in PassengerFlowPcs :
                  ExecuteMenuStep([Frame EXCEPT !.pc = q], in).TotalDrivers = TotalDrivers)

\* each collection received a record and kept it across the other's Add
C11_Witness ==
    /\ Len(TotalDrivers) = 1 /\ TotalDrivers = histD
    /\ Len(TotalPassengers) = 1 /\ TotalPassengers = histP

====
